---- MODULE Spec2Model ----
(***************************************************************************)
(* Model of the value types of src/oop_patterns: Vector (vector.py) and    *)
(* Matrix (matrix.py), as Python executes them.                            *)
(*                                                                         *)
(* Python objects live on heaps and are named by references (indices):     *)
(*   lists    - the mutable list objects (caller lists, matrix rows)       *)
(*   vectors  - the Vector instances                                       *)
(*   matrices - the Matrix instances                                       *)
(* A tuple is an immutable value and is modelled by a TLA+ sequence.       *)
(*                                                                         *)
(* Numbers.  A number is a record [n, r] that denotes n / sqrt(r), r >= 1. *)
(* Python ints are [n, 1].  The quotients that unit_vector produces        *)
(* (component / magnitude) are exactly the numbers with r > 1, so the      *)
(* arithmetic of the source is modelled exactly on them.  Zero is always   *)
(* [0, 1].  A magnitude is a record [num, den] that denotes                *)
(* sqrt(num / den).                                                        *)
(***************************************************************************)
EXTENDS Integers, Sequences, FiniteSets, TLC

VARIABLES
    lists,      \* heap of list objects: sequence of sequences
    vectors,    \* heap of Vector instances
    matrices,   \* heap of Matrix instances
    vec_args,   \* history: the sequence each Vector was constructed from
    mat_args,   \* history: the nested data each Matrix was constructed from
    result,     \* the last call: operation, operands, outcome, value
    threads,    \* concurrent readers: position and locals of each
    writes      \* history: number of writes to each cache slot

vars == <<lists, vectors, matrices, vec_args, mat_args, result, threads, writes>>

\* ---------------------------------------------------------------- bounds
MaxDim == 1
MaxVectors == 2
NumThreads == 2
MaxRows == 2
MaxCols == 1
MaxMatrices == 2

\* the component values the callers use
Vals == {0, 1}

RECURSIVE SeqsUpTo(_, _)
SeqsUpTo(S, k) ==
    IF k = 0 THEN {<<>>}
    ELSE LET shorter == SeqsUpTo(S, k - 1)
         IN  shorter \cup {Append(s, x) : s \in {t \in shorter : Len(t) = k - 1}, x \in S}

\* ---------------------------------------------------------------- numbers
Norm(x) == IF x.n = 0 THEN [n |-> 0, r |-> 1] ELSE x
Int_(k) == [n |-> k, r |-> 1]

\* x + y and x - y, for operands on the same scale (or one of them zero)
Plus(x, y) ==
    IF x.n = 0 THEN y
    ELSE IF y.n = 0 THEN x
    ELSE Norm([n |-> x.n + y.n, r |-> x.r])
Neg(x) == [n |-> 0 - x.n, r |-> x.r]
Minus(x, y) == Plus(x, Neg(y))
Times(x, y) == Norm([n |-> x.n * y.n, r |-> x.r * y.r])

\* the builtin sum(): 0 + s[1] + s[2] + ...
RECURSIVE PySumFrom(_, _, _)
PySumFrom(s, i, acc) ==
    IF i > Len(s) THEN acc ELSE PySumFrom(s, i + 1, Plus(acc, s[i]))
PySum(s) == PySumFrom(s, 1, Int_(0))

\* the scale shared by the non-zero numbers of a sequence (1 if there is none)
ScaleOf(s) ==
    LET nz == {i \in 1..Len(s) : s[i].n # 0}
    IN  IF nz = {} THEN 1 ELSE s[CHOOSE i \in nz : TRUE].r
SameScale(s, t) ==
    \A i \in 1..Len(s \o t) : (s \o t)[i].n # 0 => (s \o t)[i].r = ScaleOf(s \o t)

\* ---------------------------------------------------------------- objects
\* A Python object is a record [kind, ref, items]:
\*   tuple            - immutable, its items held by value
\*   list, ref # 0    - the list object lists[ref], shared with whoever holds ref
\*   list, ref = 0    - a list nobody else holds (a literal, a comprehension)
\*   Vector, Matrix   - the instance vectors[ref], matrices[ref]
\*   int, None        - operands that are neither
TupleObj(items) == [kind |-> "tuple", ref |-> 0, items |-> items]
FreshList(items) == [kind |-> "list", ref |-> 0, items |-> items]
ListRef(l) == [kind |-> "list", ref |-> l, items |-> <<>>]
VectorRef(v) == [kind |-> "Vector", ref |-> v, items |-> <<>>]
MatrixRef(m) == [kind |-> "Matrix", ref |-> m, items |-> <<>>]
IntObj(k) == [kind |-> "int", ref |-> k, items |-> <<>>]
None == [kind |-> "None", ref |-> 0, items |-> <<>>]
NoMagnitude == [kind |-> "None", num |-> 0, den |-> 1]

\* the current items of a tuple or list object
Items(obj) == IF obj.kind = "list" /\ obj.ref # 0 THEN lists[obj.ref] ELSE obj.items

\* The last call, as the caller sees it: the operation, the outcome ("ok" or
\* the exception raised), the value returned and the instances the call
\* constructed (made).
Call(op, self, other, outcome, value, made) ==
    [op |-> op, outcome |-> outcome, value |-> value, made |-> made]

\* ---------------------------------------------------------------- Vector
\* isinstance(other, Vector)
IsVector(obj) == obj.kind = "Vector"

\* self._components = components : the argument itself, not a copy of it
M_tuple(arg) == arg

\* tuple(components): a new tuple holding the current items of the argument
tuple(arg) == TupleObj(Items(arg))

\* Vector.__init__
Vector__init__(arg) ==
    [_components |-> tuple(arg),
     _magnitude |-> NoMagnitude,
     _unit_vector |-> None]

\* Vector.components: the object held in self._components
components(v) == vectors[v]._components

\* zip(a, b): pairs up to the shorter length
zip(a, b) ==
    [i \in 1..(IF Len(a) < Len(b) THEN Len(a) ELSE Len(b)) |-> <<a[i], b[i]>>]

\* sum(a**2 for a in self._components) ** 0.5
ComputeMagnitude(c) ==
    [kind |-> "float",
     num |-> PySum([i \in 1..Len(c) |-> Times(c[i], c[i])]).n,
     den |-> ScaleOf(c)]

\* the test for a zero magnitude left out
M_MagIsZero(mag) == FALSE

\* mag == 0
MagIsZero(mag) == mag.num = 0

\* [a / mag for a in self._components]
DivideAll(c, mag) == [i \in 1..Len(c) |-> Norm([n |-> c[i].n, r |-> mag.num])]

\* [a + b for a, b in zip(...)], [a - b for ...], sum(a * b for ...)
AddComponents(a, b) ==
    LET z == zip(a, b) IN [i \in 1..Len(z) |-> Plus(z[i][1], z[i][2])]
SubComponents(a, b) ==
    LET z == zip(a, b) IN [i \in 1..Len(z) |-> Minus(z[i][1], z[i][2])]
DotComponents(a, b) ==
    LET z == zip(a, b) IN PySum([i \in 1..Len(z) |-> Times(z[i][1], z[i][2])])

\* the operands a caller can pass: any Vector, or something that is none
VecOperands ==
    {VectorRef(v) : v \in 1..Len(vectors)} \cup {IntObj(1), FreshList(<<Int_(1)>>)}

\* what a binary operation reads through other.components
OtherItems(other) == Items(components(other.ref))

\* the history variables, when one more instance is constructed from arg
Allocated(arg) ==
    /\ vec_args' = Append(vec_args, Items(arg))
    /\ writes' = [magnitude |-> Append(writes.magnitude, 0),
                  unit_vector |-> Append(writes.unit_vector, 0)]

\* Vector(arg), called by the caller with a list literal or a list it holds
VectorNew(arg) ==
    /\ Len(vectors) < MaxVectors
    /\ vectors' = Append(vectors, Vector__init__(arg))
    /\ Allocated(arg)
    /\ result' = Call("Vector", None, arg, "ok", VectorRef(Len(vectors) + 1),
                      <<Vector__init__(arg)>>)
    /\ UNCHANGED <<lists, matrices, mat_args, threads>>

\* v.components read by the caller
VectorComponents(v) ==
    /\ result' = Call("components", VectorRef(v), None, "ok", components(v), <<>>)
    /\ UNCHANGED <<lists, vectors, matrices, vec_args, mat_args, threads, writes>>

\* v.components[i] = x : a tuple does not support item assignment
VectorComponentsSetItem(v, i, x) ==
    LET obj == components(v) IN
    /\ i \in 1..Len(Items(obj))
    /\ IF obj.kind = "tuple"
       THEN /\ result' = Call("setitem", VectorRef(v), None, "TypeError", None, <<>>)
            /\ UNCHANGED <<lists, vectors>>
       ELSE /\ result' = Call("setitem", VectorRef(v), None, "ok", None, <<>>)
            /\ IF obj.ref # 0
               THEN /\ lists' = [lists EXCEPT ![obj.ref][i] = x]
                    /\ UNCHANGED vectors
               ELSE /\ vectors' = [vectors EXCEPT ![v]._components.items[i] = x]
                    /\ UNCHANGED lists
    /\ UNCHANGED <<matrices, vec_args, mat_args, threads, writes>>

\* the heap after v.magnitude has run to its end
AfterMagnitude(vs, v) ==
    IF vs[v]._magnitude = NoMagnitude
    THEN [vs EXCEPT ![v]._magnitude = ComputeMagnitude(Items(vs[v]._components))]
    ELSE vs

\* the write counts after v.magnitude has run to its end
CountMagnitude(w, v) ==
    [w EXCEPT !.magnitude[v] = @ + (IF vectors[v]._magnitude = NoMagnitude THEN 1 ELSE 0)]

\* v.magnitude
VectorMagnitude(v) ==
    /\ vectors' = AfterMagnitude(vectors, v)
    /\ result' = Call("magnitude", VectorRef(v), None, "ok", vectors'[v]._magnitude, <<>>)
    /\ writes' = CountMagnitude(writes, v)
    /\ UNCHANGED <<lists, matrices, vec_args, mat_args, threads>>

\* v.unit_vector
VectorUnitVector(v) ==
    LET vs1 == AfterMagnitude(vectors, v)
        mag == vs1[v]._magnitude
        new == Len(vectors) + 1
        quot == FreshList(DivideAll(Items(vs1[v]._components), mag))
    IN
    /\ IF vectors[v]._unit_vector # None
       THEN /\ result' = Call("unit_vector", VectorRef(v), None, "ok",
                              vectors[v]._unit_vector, <<>>)
            /\ UNCHANGED <<vectors, vec_args, writes>>
       ELSE IF MagIsZero(mag)
       THEN /\ vectors' = vs1
            /\ result' = Call("unit_vector", VectorRef(v), None, "ValueError", None, <<>>)
            /\ writes' = CountMagnitude(writes, v)
            /\ UNCHANGED vec_args
       ELSE /\ Len(vectors) < MaxVectors
            /\ vectors' = Append([vs1 EXCEPT ![v]._unit_vector = VectorRef(new)],
                                 Vector__init__(quot))
            /\ vec_args' = Append(vec_args, Items(quot))
            /\ result' = Call("unit_vector", VectorRef(v), None, "ok", VectorRef(new),
                              <<Vector__init__(quot)>>)
            /\ writes' =
                 [magnitude |-> Append(CountMagnitude(writes, v).magnitude, 0),
                  unit_vector |-> Append([writes.unit_vector EXCEPT ![v] = @ + 1], 0)]
    /\ UNCHANGED <<lists, matrices, mat_args, threads>>

\* the checks without the comparison of the dimensions
M_BinaryCheck(v, other) == IF ~IsVector(other) THEN "TypeError" ELSE "ok"

\* the checks shared by __add__, __sub__ and dot: the exception raised, if any
BinaryCheck(v, other) ==
    IF ~IsVector(other) THEN "TypeError"
    ELSE IF Len(Items(components(v))) # Len(OtherItems(other)) THEN "ValueError"
    ELSE "ok"

\* A binary operation that returns Vector(<list comprehension>).  The caller
\* keeps the new instance (it then stays on the heap) or drops it.
VectorBinary(op, v, other, keep) ==
    LET outcome == BinaryCheck(v, other) IN
    /\ IF outcome # "ok"
       THEN /\ ~keep
            /\ result' = Call(op, VectorRef(v), other, outcome, None, <<>>)
            /\ UNCHANGED <<vectors, vec_args, writes>>
       ELSE LET arg == FreshList(IF op = "add"
                                     THEN AddComponents(Items(components(v)), OtherItems(other))
                                     ELSE SubComponents(Items(components(v)), OtherItems(other))) IN
            /\ SameScale(Items(components(v)), OtherItems(other))
            /\ IF keep
               THEN /\ Len(vectors) < MaxVectors
                    /\ vectors' = Append(vectors, Vector__init__(arg))
                    /\ Allocated(arg)
                    /\ result' = Call(op, VectorRef(v), other, "ok",
                                      VectorRef(Len(vectors) + 1), <<Vector__init__(arg)>>)
               ELSE /\ result' = Call(op, VectorRef(v), other, "ok",
                                      VectorRef(0), <<Vector__init__(arg)>>)
                    /\ UNCHANGED <<vectors, vec_args, writes>>
    /\ UNCHANGED <<lists, matrices, mat_args, threads>>

\* Vector.__add__
Vector__add__(v, other, keep) == VectorBinary("add", v, other, keep)

\* Vector.__sub__
Vector__sub__(v, other, keep) == VectorBinary("sub", v, other, keep)

\* Vector.dot
VectorDot(v, other) ==
    LET outcome == BinaryCheck(v, other) IN
    /\ IF outcome # "ok"
       THEN result' = Call("dot", VectorRef(v), other, outcome, None, <<>>)
       ELSE /\ SameScale(Items(components(v)), OtherItems(other))
            /\ result' = Call("dot", VectorRef(v), other, "ok",
                              DotComponents(Items(components(v)), OtherItems(other)), <<>>)
    /\ UNCHANGED <<lists, vectors, matrices, vec_args, mat_args, threads, writes>>

\* The methods class Vector defines.  It defines no __eq__, __hash__ or
\* __len__, so ==, hash() and len() fall back to what class object gives.
VectorMethods ==
    {"__init__", "components", "magnitude", "unit_vector",
     "__add__", "__sub__", "dot", "__repr__", "__str__"}

\* id(v): distinct for instances alive together
id(v) == v

\* a == b : object.__eq__, the identity of the instances
VectorEq(a, b) == id(a) = id(b)

\* hash(v) : object.__hash__, derived from id(v)
VectorHash(v) == id(v)

\* a == b and a != b, called by the caller
VectorCompare(a, b) ==
    /\ \/ result' = Call("eq", VectorRef(a), VectorRef(b), "ok", VectorEq(a, b), <<>>)
       \/ result' = Call("ne", VectorRef(a), VectorRef(b), "ok", ~VectorEq(a, b), <<>>)
    /\ UNCHANGED <<lists, vectors, matrices, vec_args, mat_args, threads, writes>>

\* hash(v)
VectorHashCall(v) ==
    /\ result' = Call("hash", VectorRef(v), None, "ok", VectorHash(v), <<>>)
    /\ UNCHANGED <<lists, vectors, matrices, vec_args, mat_args, threads, writes>>

\* len(v): TypeError, object of type 'Vector' has no len()
VectorLen(v) ==
    /\ IF "__len__" \in VectorMethods
       THEN result' = Call("len", VectorRef(v), None, "ok", Len(Items(components(v))), <<>>)
       ELSE result' = Call("len", VectorRef(v), None, "TypeError", None, <<>>)
    /\ UNCHANGED <<lists, vectors, matrices, vec_args, mat_args, threads, writes>>

\* the caller changes a list it holds: lst[i] = x, lst.append(x), lst.pop()
ListSetItem(l, i, x) ==
    /\ i \in 1..Len(lists[l])
    /\ lists[l][i] # x
    /\ lists' = [lists EXCEPT ![l][i] = x]
    /\ result' = Call("list.setitem", ListRef(l), None, "ok", None, <<>>)
    /\ UNCHANGED <<vectors, matrices, vec_args, mat_args, threads, writes>>

ListAppend(l, x) ==
    /\ Len(lists[l]) < MaxDim
    /\ lists' = [lists EXCEPT ![l] = Append(@, x)]
    /\ result' = Call("list.append", ListRef(l), None, "ok", None, <<>>)
    /\ UNCHANGED <<vectors, matrices, vec_args, mat_args, threads, writes>>

ListPop(l) ==
    /\ Len(lists[l]) > 0
    /\ lists' = [lists EXCEPT ![l] = SubSeq(@, 1, Len(@) - 1)]
    /\ result' = Call("list.pop", ListRef(l), None, "ok", None, <<>>)
    /\ UNCHANGED <<vectors, matrices, vec_args, mat_args, threads, writes>>

\* ------------------------------------------------- Vector, one caller
NumVals == {Int_(k) : k \in Vals}
Inputs == SeqsUpTo(NumVals, MaxDim)

NoCalls ==
    /\ vectors = <<>>
    /\ matrices = <<>>
    /\ vec_args = <<>>
    /\ mat_args = <<>>
    /\ result = [op |-> "start", outcome |-> "ok", value |-> None, made |-> <<>>]
    /\ threads = <<>>
    /\ writes = [magnitude |-> <<>>, unit_vector |-> <<>>]

InitVec == lists = <<>> /\ NoCalls

VectorCalls ==
    \/ \E v \in 1..Len(vectors) : VectorComponents(v)
    \/ \E v \in 1..Len(vectors), i \in 1..MaxDim, x \in NumVals :
           VectorComponentsSetItem(v, i, x)
    \/ \E v \in 1..Len(vectors) : VectorMagnitude(v)
    \/ \E v \in 1..Len(vectors) : VectorUnitVector(v)
    \/ \E v \in 1..Len(vectors), other \in VecOperands, keep \in BOOLEAN :
           Vector__add__(v, other, keep)
    \/ \E v \in 1..Len(vectors), other \in VecOperands, keep \in BOOLEAN :
           Vector__sub__(v, other, keep)
    \/ \E v \in 1..Len(vectors), other \in VecOperands : VectorDot(v, other)

NextVec ==
    \/ \E c \in Inputs : VectorNew(FreshList(c))
    \/ VectorCalls
    \/ \E a \in 1..Len(vectors), b \in 1..Len(vectors) : VectorCompare(a, b)
    \/ \E v \in 1..Len(vectors) : VectorHashCall(v)
    \/ \E v \in 1..Len(vectors) : VectorLen(v)

SpecVec == InitVec /\ [][NextVec]_vars

\* ------------------------------------------------- Vector, arithmetic only
NextArith ==
    \/ \E c \in Inputs : VectorNew(FreshList(c))
    \/ \E v \in 1..Len(vectors), other \in VecOperands, keep \in BOOLEAN :
           Vector__add__(v, other, keep)
    \/ \E v \in 1..Len(vectors), other \in VecOperands, keep \in BOOLEAN :
           Vector__sub__(v, other, keep)
    \/ \E v \in 1..Len(vectors), other \in VecOperands : VectorDot(v, other)

SpecArith == InitVec /\ [][NextArith]_vars

\* ------------------------------------------------- Vector, properties only
NextDerived ==
    \/ \E c \in Inputs : VectorNew(FreshList(c))
    \/ \E v \in 1..Len(vectors) : VectorComponents(v)
    \/ \E v \in 1..Len(vectors) : VectorMagnitude(v)
    \/ \E v \in 1..Len(vectors) : VectorUnitVector(v)

SpecDerived == InitVec /\ [][NextDerived]_vars

\* ------------------------------------------------- Vector, a caller that
\* constructs one Vector from a list it holds, and keeps and changes the list
InitShared == lists \in [1..1 -> Inputs] /\ NoCalls

NextShared ==
    \/ \E l \in 1..Len(lists) : vectors = <<>> /\ VectorNew(ListRef(l))
    \/ \E l \in 1..Len(lists), i \in 1..MaxDim, x \in NumVals : ListSetItem(l, i, x)
    \/ \E l \in 1..Len(lists), x \in NumVals : ListAppend(l, x)
    \/ \E l \in 1..Len(lists) : ListPop(l)
    \/ VectorCalls

SpecShared == InitShared /\ [][NextShared]_vars

\* ------------------------------------------------- Vector, concurrent readers
\* Threads that share the instances and read magnitude and unit_vector.  The
\* interpreter may switch threads between any two attribute accesses, so each
\* read and each write of a cache slot is a step of its own.
Idle == [pc |-> "idle", self |-> 0, ret |-> "idle", mag |-> NoMagnitude]

\* a thread starts reading v.magnitude or v.unit_vector
ThreadCall(t, v, prop) ==
    /\ threads[t].pc = "idle"
    /\ threads' = [threads EXCEPT ![t] =
                      [Idle EXCEPT !.pc = IF prop = "magnitude" THEN "mag_test" ELSE "uv_test",
                                   !.self = v]]
    /\ UNCHANGED <<lists, vectors, matrices, vec_args, mat_args, result, writes>>

\* if self._magnitude is None:
MagTest(t) ==
    /\ threads[t].pc = "mag_test"
    /\ threads' = [threads EXCEPT ![t].pc =
                      IF vectors[threads[t].self]._magnitude = NoMagnitude
                      THEN "mag_store" ELSE "mag_ret"]
    /\ UNCHANGED <<lists, vectors, matrices, vec_args, mat_args, result, writes>>

\* self._magnitude = sum(...) ** 0.5
MagStore(t) ==
    LET v == threads[t].self IN
    /\ threads[t].pc = "mag_store"
    /\ vectors' = [vectors EXCEPT ![v]._magnitude =
                      ComputeMagnitude(Items(vectors[v]._components))]
    /\ writes' = [writes EXCEPT !.magnitude[v] = @ + 1]
    /\ threads' = [threads EXCEPT ![t].pc = "mag_ret"]
    /\ UNCHANGED <<lists, matrices, vec_args, mat_args, result>>

\* return self._magnitude : to the caller, or to unit_vector's mag
MagReturn(t) ==
    LET value == vectors[threads[t].self]._magnitude IN
    /\ threads[t].pc = "mag_ret"
    /\ IF threads[t].ret = "idle"
       THEN /\ threads' = [threads EXCEPT ![t] = Idle]
            /\ result' = Call("magnitude", VectorRef(threads[t].self), None, "ok", value, <<>>)
       ELSE /\ threads' = [threads EXCEPT ![t].pc = "uv_zero", ![t].mag = value]
            /\ UNCHANGED result
    /\ UNCHANGED <<lists, vectors, matrices, vec_args, mat_args, writes>>

\* if self._unit_vector is None: mag = self.magnitude
UvTest(t) ==
    /\ threads[t].pc = "uv_test"
    /\ threads' = [threads EXCEPT ![t] =
                      IF vectors[threads[t].self]._unit_vector = None
                      THEN [@ EXCEPT !.pc = "mag_test", !.ret = "uv_zero"]
                      ELSE [@ EXCEPT !.pc = "uv_ret"]]
    /\ UNCHANGED <<lists, vectors, matrices, vec_args, mat_args, result, writes>>

\* if mag == 0: raise ValueError
UvZero(t) ==
    /\ threads[t].pc = "uv_zero"
    /\ IF MagIsZero(threads[t].mag)
       THEN /\ threads' = [threads EXCEPT ![t] = Idle]
            /\ result' = Call("unit_vector", VectorRef(threads[t].self), None,
                              "ValueError", None, <<>>)
       ELSE /\ threads' = [threads EXCEPT ![t].pc = "uv_store"]
            /\ UNCHANGED result
    /\ UNCHANGED <<lists, vectors, matrices, vec_args, mat_args, writes>>

\* self._unit_vector = Vector([a / mag for a in self._components])
UvStore(t) ==
    LET v == threads[t].self
        new == Len(vectors) + 1
        quot == FreshList(DivideAll(Items(vectors[v]._components), threads[t].mag))
    IN
    /\ threads[t].pc = "uv_store"
    /\ Len(vectors) < MaxVectors
    /\ vectors' = Append([vectors EXCEPT ![v]._unit_vector = VectorRef(new)],
                         Vector__init__(quot))
    /\ vec_args' = Append(vec_args, Items(quot))
    /\ writes' = [magnitude |-> Append(writes.magnitude, 0),
                  unit_vector |-> Append([writes.unit_vector EXCEPT ![v] = @ + 1], 0)]
    /\ threads' = [threads EXCEPT ![t].pc = "uv_ret"]
    /\ UNCHANGED <<lists, matrices, mat_args, result>>

\* return self._unit_vector
UvReturn(t) ==
    /\ threads[t].pc = "uv_ret"
    /\ threads' = [threads EXCEPT ![t] = Idle]
    /\ result' = Call("unit_vector", VectorRef(threads[t].self), None, "ok",
                      vectors[threads[t].self]._unit_vector, <<>>)
    /\ UNCHANGED <<lists, vectors, matrices, vec_args, mat_args, writes>>

\* one instance, constructed before the threads start
InitConc ==
    /\ lists = <<>>
    /\ matrices = <<>>
    /\ mat_args = <<>>
    /\ \E c \in Inputs :
          /\ vectors = <<[_components |-> TupleObj(c), _magnitude |-> NoMagnitude,
                          _unit_vector |-> None]>>
          /\ vec_args = <<c>>
    /\ result = [op |-> "start", outcome |-> "ok", value |-> None, made |-> <<>>]
    /\ threads = [t \in 1..NumThreads |-> Idle]
    /\ writes = [magnitude |-> <<0>>, unit_vector |-> <<0>>]

NextConc ==
    \E t \in 1..NumThreads :
        \/ \E v \in 1..Len(vectors), prop \in {"magnitude", "unit_vector"} :
               ThreadCall(t, v, prop)
        \/ MagTest(t)
        \/ MagStore(t)
        \/ MagReturn(t)
        \/ UvTest(t)
        \/ UvZero(t)
        \/ UvStore(t)
        \/ UvReturn(t)

SpecConc == InitConc /\ [][NextConc]_vars

\* ---------------------------------------------------------------- Matrix
\* A nested list is a list object whose items are the row lists, each held
\* inline: [[1, 2], [3, 4]] is a list of FreshList rows.

\* len(row) for every row of data, data[0] first
RowLens(data) == [i \in 1..Len(Items(data)) |-> Len(Items(Items(data)[i]))]

\* not data : the lengths of the rows are not compared
M_MatrixInvalid(data) == Items(data) = <<>>

\* not data or not all(len(row) == len(data[0]) for row in data)
MatrixInvalid(data) ==
    \/ Items(data) = <<>>
    \/ ~(\A i \in 1..Len(Items(data)) : RowLens(data)[i] = RowLens(data)[1])

\* Matrix.__init__ : self.data = data keeps the caller's list object itself
Matrix__init__(data) ==
    [data |-> data,
     rows |-> Len(Items(data)),
     cols |-> Len(Items(Items(data)[1]))]

\* the numbers of a nested list, row by row
Deep(data) == [i \in 1..Len(Items(data)) |-> Items(Items(data)[i])]

\* isinstance(other, Matrix)
IsMatrix(obj) == obj.kind = "Matrix"

\* Matrix(data), called by the caller with a literal or a list it holds
MatrixNew(arg) ==
    /\ IF MatrixInvalid(arg)
       THEN /\ result' = Call("Matrix", None, arg, "ValueError", None, <<>>)
            /\ UNCHANGED <<matrices, mat_args>>
       ELSE /\ Len(matrices) < MaxMatrices
            /\ matrices' = Append(matrices, Matrix__init__(arg))
            /\ mat_args' = Append(mat_args, Deep(arg))
            /\ result' = Call("Matrix", None, arg, "ok", MatrixRef(Len(matrices) + 1),
                              <<Matrix__init__(arg)>>)
    /\ UNCHANGED <<lists, vectors, vec_args, threads, writes>>

\* self.data[i][j] is in range for every i in range(self.rows), j in
\* range(self.cols); with cols = 0 nothing is indexed
InRange(m) ==
    \A i \in 1..matrices[m].rows, j \in 1..matrices[m].cols :
        /\ i <= Len(Items(matrices[m].data))
        /\ j <= Len(Deep(matrices[m].data)[i])

\* [[self.data[i][j] + other.data[i][j] for j in range(self.cols)] for i in range(self.rows)]
AddElements(a, b, rows, cols) ==
    FreshList([i \in 1..rows |-> FreshList([j \in 1..cols |-> Plus(a[i][j], b[i][j])])])
SubElements(a, b, rows, cols) ==
    FreshList([i \in 1..rows |-> FreshList([j \in 1..cols |-> Minus(a[i][j], b[i][j])])])

\* the exception __add__ or __sub__ raises, if any
MatrixCheck(m, other) ==
    IF ~IsMatrix(other) THEN "TypeError"
    ELSE IF matrices[m].rows # matrices[other.ref].rows
            \/ matrices[m].cols # matrices[other.ref].cols THEN "ValueError"
    ELSE IF ~InRange(m) \/ ~InRange(other.ref) THEN "IndexError"
    ELSE "ok"

\* A binary operation that returns Matrix(result).  The caller keeps the new
\* instance (it then stays on the heap) or drops it.
MatrixBinary(op, m, other, keep) ==
    LET outcome == MatrixCheck(m, other) IN
    /\ IF outcome # "ok"
       THEN /\ ~keep
            /\ result' = Call(op, MatrixRef(m), other, outcome, None, <<>>)
            /\ UNCHANGED <<matrices, mat_args>>
       ELSE LET a == Deep(matrices[m].data)
                b == Deep(matrices[other.ref].data)
                res == IF op = "add"
                       THEN AddElements(a, b, matrices[m].rows, matrices[m].cols)
                       ELSE SubElements(a, b, matrices[m].rows, matrices[m].cols)
            IN  IF MatrixInvalid(res)
                THEN /\ ~keep
                     /\ result' = Call(op, MatrixRef(m), other, "ValueError", None, <<>>)
                     /\ UNCHANGED <<matrices, mat_args>>
                ELSE IF keep
                THEN /\ Len(matrices) < MaxMatrices
                     /\ matrices' = Append(matrices, Matrix__init__(res))
                     /\ mat_args' = Append(mat_args, Deep(res))
                     /\ result' = Call(op, MatrixRef(m), other, "ok",
                                       MatrixRef(Len(matrices) + 1), <<Matrix__init__(res)>>)
                ELSE /\ result' = Call(op, MatrixRef(m), other, "ok", MatrixRef(0),
                                       <<Matrix__init__(res)>>)
                     /\ UNCHANGED <<matrices, mat_args>>
    /\ UNCHANGED <<lists, vectors, vec_args, threads, writes>>

\* Matrix.__add__
Matrix__add__(m, other, keep) == MatrixBinary("add", m, other, keep)

\* Matrix.__sub__
Matrix__sub__(m, other, keep) == MatrixBinary("sub", m, other, keep)

\* sep.join(strings)
RECURSIVE Join(_, _)
Join(sep, strs) ==
    IF strs = <<>> THEN ""
    ELSE IF Len(strs) = 1 THEN strs[1]
    ELSE strs[1] \o sep \o Join(sep, Tail(strs))

\* Matrix.__str__ : "\n".join(["[" + " ,".join(map(str, row)) + "]" for row in self.data])
Matrix__str__(m) ==
    LET d == Deep(matrices[m].data) IN
    Join("\n", [i \in 1..Len(d) |->
                   "[" \o Join(" ,", [j \in 1..Len(d[i]) |-> ToString(d[i][j].n)]) \o "]"])

\* str(m), called by the caller
MatrixStr(m) ==
    /\ result' = Call("str", MatrixRef(m), None, "ok", Matrix__str__(m), <<>>)
    /\ UNCHANGED <<lists, vectors, matrices, vec_args, mat_args, threads, writes>>

\* The writes a holder of a nested list can make:
\*   data[i][j] = x, data[i].append(x), data[i].pop(), data.pop()
NestedWrites ==
    [kind : {"setitem"}, i : 1..MaxRows, j : 1..MaxCols, x : NumVals]
        \cup [kind : {"append"}, i : 1..MaxRows, j : {0}, x : NumVals]
        \cup [kind : {"pop"}, i : 1..MaxRows, j : {0}, x : {Int_(0)}]
        \cup [kind : {"poprow"}, i : {0}, j : {0}, x : {Int_(0)}]

CanWrite(rows, w) ==
    CASE w.kind = "setitem" ->
             w.i <= Len(rows) /\ w.j <= Len(rows[w.i].items) /\ rows[w.i].items[w.j] # w.x
      [] w.kind = "append" -> w.i <= Len(rows) /\ Len(rows[w.i].items) < MaxCols
      [] w.kind = "pop" -> w.i <= Len(rows) /\ rows[w.i].items # <<>>
      [] w.kind = "poprow" -> rows # <<>>

Written(rows, w) ==
    CASE w.kind = "setitem" -> [rows EXCEPT ![w.i].items[w.j] = w.x]
      [] w.kind = "append" -> [rows EXCEPT ![w.i].items = Append(@, w.x)]
      [] w.kind = "pop" -> [rows EXCEPT ![w.i].items = SubSeq(@, 1, Len(@) - 1)]
      [] w.kind = "poprow" -> SubSeq(rows, 1, Len(rows) - 1)

\* the caller writes to the nested list it holds
NestedListWrite(l, w) ==
    /\ CanWrite(lists[l], w)
    /\ lists' = [lists EXCEPT ![l] = Written(@, w)]
    /\ result' = Call("list.write", ListRef(l), None, "ok", None, <<>>)
    /\ UNCHANGED <<vectors, matrices, vec_args, mat_args, threads, writes>>

\* the caller writes through m.data
MatrixDataWrite(m, w) ==
    LET data == matrices[m].data IN
    /\ CanWrite(Items(data), w)
    /\ IF data.ref # 0
       THEN /\ lists' = [lists EXCEPT ![data.ref] = Written(@, w)]
            /\ UNCHANGED matrices
       ELSE /\ matrices' = [matrices EXCEPT ![m].data.items = Written(@, w)]
            /\ UNCHANGED lists
    /\ result' = Call("data.write", MatrixRef(m), None, "ok", None, <<>>)
    /\ UNCHANGED <<vectors, vec_args, mat_args, threads, writes>>

\* the nested lists the callers build
RowInputs == {FreshList(c) : c \in SeqsUpTo(NumVals, MaxCols)}
NestedInputs == SeqsUpTo(RowInputs, MaxRows)

MatOperands ==
    {MatrixRef(m) : m \in 1..Len(matrices)} \cup {IntObj(1), FreshList(<<>>)}

InitMat == lists \in [1..1 -> NestedInputs] /\ NoCalls

NextMat ==
    \/ \E l \in 1..Len(lists) : MatrixNew(ListRef(l))
    \/ \E m \in 1..Len(matrices), other \in MatOperands, keep \in BOOLEAN :
           Matrix__add__(m, other, keep)
    \/ \E m \in 1..Len(matrices), other \in MatOperands, keep \in BOOLEAN :
           Matrix__sub__(m, other, keep)
    \/ \E m \in 1..Len(matrices) : MatrixStr(m)
    \/ \E l \in 1..Len(lists), w \in NestedWrites : NestedListWrite(l, w)
    \/ \E m \in 1..Len(matrices), w \in NestedWrites : MatrixDataWrite(m, w)

SpecMat == InitMat /\ [][NextMat]_vars

\* ------------------------------------------------- Matrix, construction only
\* the caller edits its nested list and constructs one Matrix from it
NextMatNew ==
    \/ \E l \in 1..Len(lists) : matrices = <<>> /\ MatrixNew(ListRef(l))
    \/ \E l \in 1..Len(lists), w \in NestedWrites : NestedListWrite(l, w)

SpecMatNew == InitMat /\ [][NextMatNew]_vars

\* ================================================================ claims
\* the numbers of v, in order
Comps(v) == Items(vectors[v]._components)

\* z = x + sign * y, for x and y on the same scale: the numerators add, the
\* scale stays
IsSumOf(z, x, y, sign) ==
    /\ z.n = x.n + sign * y.n
    /\ z.n # 0 => z.r = (IF x.n # 0 THEN x.r ELSE y.r)
    /\ z.n = 0 => z.r = 1

\* a_1 * b_1 + ... + a_k * b_k, on the numerators
RECURSIVE SigmaProducts(_, _, _)
SigmaProducts(a, b, k) ==
    IF k = 0 THEN 0 ELSE SigmaProducts(a, b, k - 1) + a[k].n * b[k].n

\* the call constructed one Vector, new on the heap or dropped, with components c
MadeVector(c, sign, a, b) ==
    /\ result'.outcome = "ok"
    /\ Len(result'.made) = 1
    /\ result'.value.kind = "Vector"
    /\ result'.value.ref \in {0, Len(vectors) + 1}
    /\ Len(vectors') = Len(vectors) + (IF result'.value.ref = 0 THEN 0 ELSE 1)
    /\ result'.value.ref # 0 => vectors'[result'.value.ref] = result'.made[1]
    /\ Len(result'.made[1]._components.items) = Len(a)
    /\ \A i \in 1..Len(a) :
           IsSumOf(result'.made[1]._components.items[i], a[i], b[i], sign)

\* the call raised exc and constructed nothing
Raised(exc) ==
    /\ result'.outcome = exc
    /\ result'.made = <<>>
    /\ vectors' = vectors

\* the outcome C3 gives a + b (sign 1) and a - b (sign -1)
C3_Post(v, other, sign) ==
    IF other.kind # "Vector" THEN Raised("TypeError")
    ELSE IF Len(Comps(v)) # Len(Comps(other.ref)) THEN Raised("ValueError")
    ELSE MadeVector(Comps(v), sign, Comps(v), Comps(other.ref))

\* the outcome C3 gives a.dot(b)
C3_DotPost(v, other) ==
    IF other.kind # "Vector" THEN Raised("TypeError")
    ELSE IF Len(Comps(v)) # Len(Comps(other.ref)) THEN Raised("ValueError")
    ELSE /\ result'.outcome = "ok"
         /\ vectors' = vectors
         /\ result'.value.n = SigmaProducts(Comps(v), Comps(other.ref), Len(Comps(v)))
         /\ Len(Comps(v)) = 0 => result'.value = Int_(0)

\* C1: a == b is true iff a and b have the same dimension and pairwise equal
\* components, and a != b is true exactly otherwise -- also for two distinct
\* instances built from the same sequence.
C1_ValueEquality ==
    [][\A a \in 1..Len(vectors), b \in 1..Len(vectors) :
          (result'.op \in {"eq", "ne"} /\ VectorCompare(a, b)) =>
              /\ result'.op = "eq" => result'.value = (Comps(a) = Comps(b))
              /\ result'.op = "ne" => result'.value = (Comps(a) # Comps(b))]_vars

\* C2: two Vectors constructed from identical component sequences have the
\* same hash: hash(a) is a function of the components of a only.
C2_HashOfComponents ==
    [][\A a \in 1..Len(vectors), b \in 1..Len(vectors) :
          (result'.op = "hash" /\ VectorHashCall(a) /\ Comps(a) = Comps(b)) =>
              result'.value = VectorHash(b)]_vars

\* C3: a + b, a - b and a.dot(b) raise TypeError when b is no Vector, else
\* ValueError when the dimensions differ (constructing nothing), else give a
\* new Vector of the pairwise sums or differences, or the number sum of
\* a_i * b_i (0 for two empty vectors).
C3_BinaryOperations ==
    [][\A v \in 1..Len(vectors), other \in VecOperands :
          /\ result'.op = "add" =>
                (Vector__add__(v, other, result'.value.ref # 0) => C3_Post(v, other, 1))
          /\ result'.op = "sub" =>
                (Vector__sub__(v, other, result'.value.ref # 0) => C3_Post(v, other, -1))
          /\ result'.op = "dot" =>
                (VectorDot(v, other) => C3_DotPost(v, other))]_vars

\* C3 witness: a + b has succeeded on two different instances with non-zero
\* components and its result is kept on the heap
C3_Witness ==
    /\ result.op = "add"
    /\ result.outcome = "ok"
    /\ Len(vectors) = 2
    /\ vec_args[1] = <<Int_(1)>>
    /\ vec_args[2] = <<Int_(0)>>
    /\ result.made[1]._components.items = <<Int_(1)>>

\* C4: len(v) succeeds and returns the number of components v was
\* constructed from, whatever they are and whatever was read before.
C4_Length ==
    [][\A v \in 1..Len(vectors) :
          (result'.op = "len" /\ VectorLen(v)) =>
              /\ result'.outcome = "ok"
              /\ result'.value = Len(vec_args[v])]_vars

\* C5: the components of every Vector are, at every later point, the sequence
\* it was constructed from, exactly and in order -- whatever is read,
\* computed, attempted or changed by the caller afterwards; each operation
\* that constructs a Vector adds one instance and changes no other.
C5_Immutable ==
    /\ Len(vec_args) = Len(vectors)
    /\ \A v \in 1..Len(vectors) : Comps(v) = vec_args[v]

\* C5 witness: the caller has changed the list a Vector was constructed from,
\* the Vector has its magnitude and unit vector cached, and the last call was
\* a failed write through the components view
C5_Witness ==
    /\ Len(vectors) = 2
    /\ lists[1] # vec_args[1]
    /\ vec_args[1] # <<>>
    /\ vectors[1]._unit_vector # None
    /\ result.op = "setitem"
    /\ result.outcome = "TypeError"

\* every component of v is zero (or v has none): the magnitude is exactly 0
IsZeroVector(v) == \A i \in 1..Len(Comps(v)) : Comps(v)[i].n = 0

\* C6: under every interleaving of concurrent readers of magnitude and
\* unit_vector, each cache slot of each instance is written at most once.
C6_WrittenOnce ==
    \A v \in 1..Len(vectors) :
        writes.magnitude[v] <= 1 /\ writes.unit_vector[v] <= 1

\* C7: every access to unit_vector of a Vector of magnitude zero raises
\* ValueError -- the first one and each later one, also once the magnitude is
\* cached; no unit vector is ever stored for it and its components stay.
C7_ZeroVector ==
    [][\A v \in 1..Len(vectors) :
          IsZeroVector(v) =>
              /\ vectors[v]._unit_vector = None
              /\ (result'.op = "unit_vector" /\ VectorUnitVector(v)) =>
                    /\ result'.outcome = "ValueError"
                    /\ result'.made = <<>>
                    /\ Len(vectors') = Len(vectors)
                    /\ \A u \in 1..Len(vectors) :
                           /\ vectors'[u]._unit_vector = vectors[u]._unit_vector
                           /\ vectors'[u]._components = vectors[u]._components]_vars

\* C7 witness: unit_vector has just failed on a non-empty zero vector whose
\* magnitude is cached
C7_Witness ==
    /\ result.op = "unit_vector"
    /\ result.outcome = "ValueError"
    /\ \E v \in 1..Len(vectors) :
          /\ vec_args[v] # <<>>
          /\ \A i \in 1..Len(vec_args[v]) : vec_args[v][i].n = 0
          /\ vectors[v]._magnitude # NoMagnitude
          /\ vectors[v]._unit_vector = None

\* C8: every Matrix keeps the data it was constructed from and stays
\* rectangular: rows rows, each of length cols, at every later point.
C8_MatrixImmutable ==
    \A m \in 1..Len(matrices) :
        /\ Deep(matrices[m].data) = mat_args[m]
        /\ Len(Deep(matrices[m].data)) = matrices[m].rows
        /\ \A i \in 1..Len(Deep(matrices[m].data)) :
               Len(Deep(matrices[m].data)[i]) = matrices[m].cols

\* C9: Matrix(data) raises ValueError and constructs nothing exactly when
\* data is empty or some row is not as long as the first; otherwise it
\* constructs a Matrix with rows = the number of rows and cols = the length
\* of the first row (one row and rows of length 0 included).
C9_Construction ==
    [][\A l \in 1..Len(lists) :
          (result'.op = "Matrix" /\ MatrixNew(ListRef(l))) =>
              IF \/ lists[l] = <<>>
                 \/ \E i \in 1..Len(lists[l]) :
                        Len(lists[l][i].items) # Len(lists[l][1].items)
              THEN /\ result'.outcome = "ValueError"
                   /\ result'.made = <<>>
                   /\ matrices' = matrices
              ELSE /\ result'.outcome = "ok"
                   /\ Len(matrices') = Len(matrices) + 1
                   /\ matrices'[Len(matrices')].rows = Len(lists[l])
                   /\ matrices'[Len(matrices')].cols = Len(lists[l][1].items)]_vars

\* C9 witness: a Matrix of several rows of length 0 has been constructed
C9_Witness ==
    /\ result.op = "Matrix"
    /\ result.outcome = "ok"
    /\ Len(matrices) = 1
    /\ matrices[1].rows >= 2
    /\ matrices[1].cols = 0

\* the outcome C10 gives A + B (sign 1) and A - B (sign -1)
C10_Post(m, other, sign) ==
    IF other.kind # "Matrix" THEN result'.outcome = "TypeError" /\ matrices' = matrices
    ELSE IF matrices[m].rows # matrices[other.ref].rows
            \/ matrices[m].cols # matrices[other.ref].cols
    THEN result'.outcome = "ValueError" /\ matrices' = matrices
    ELSE /\ result'.outcome = "ok"
         /\ Len(result'.made) = 1
         /\ result'.made[1].rows = matrices[m].rows
         /\ result'.made[1].cols = matrices[m].cols
         /\ result'.made[1].data.ref = 0
         /\ \A i \in 1..matrices[m].rows :
               /\ result'.made[1].data.items[i].ref = 0
               /\ \A j \in 1..matrices[m].cols :
                      IsSumOf(result'.made[1].data.items[i].items[j],
                              Deep(matrices[m].data)[i][j],
                              Deep(matrices[other.ref].data)[i][j], sign)
         /\ \A k \in 1..Len(matrices) : matrices'[k] = matrices[k]
         /\ lists' = lists

\* C10: A + B and A - B raise TypeError when B is no Matrix, else ValueError
\* when rows or cols differ, else give a new Matrix of the same rows and cols
\* with the elementwise sums or differences, in rows of its own, leaving A
\* and B as they were.
C10_BinaryOperations ==
    [][result'.op \in {"add", "sub"} =>
          \A m \in 1..Len(matrices), other \in MatOperands, keep \in BOOLEAN :
              /\ Matrix__add__(m, other, keep) => C10_Post(m, other, 1)
              /\ Matrix__sub__(m, other, keep) => C10_Post(m, other, -1)]_vars

====
